---- MODULE Spec2Model ----
(***************************************************************************)
(* ANIm comparison orchestration of pyani (subcmd_anim.py): deduplication  *)
(* against the Comparison table, recovery scan, job building, dispatch of  *)
(* the dependency graph, result ingestion and matrix synthesis, over a     *)
(* sequence of command invocations that share one database.                *)
(***************************************************************************)
EXTENDS Integers, Sequences, FiniteSets, TLC

\* ---------------------------------------------------------------- bounds
\* Genomes known to the database are numbered 1..NumGenomes.
NumGenomes == 3
\* Number of subcmd_anim invocations made against the same database.
MaxRuns == 2
\* Largest number of files found in the NUCmer output directory.
MaxListing == 1

\* Largest value of the retries argument of entrez_retry.
MaxRetries == 4

\* ------------------------------------------------------------ input sets
GenomeIds == 1..NumGenomes

\* Genome.length of each registered genome (all positive, all different).
GenomeLength(g) == 2 * g + 2

\* Version strings anim.get_version may report.
Versions == {"3.1", "4.0"}

Schedulers == {"multiprocessing", "SGE"}

\* Python's None, and a value that is not None.
None == <<>>
Some(x) == <<x>>

\* An unset DataFrame cell.
NaN == <<"NaN">>

\* Outcome of a call: the value returned, or the exception raised.
Return(v) == [exc |-> "", value |-> v]
Raise(e) == [exc |-> e, value |-> None]

\* (alignment length, similarity errors) pairs anim.parse_delta may return.
ParseResults == {<<0, 0>>, <<2, 1>>}
\* parse_delta cannot read the file.
Unreadable == <<"unreadable">>

\* ------------------------------------------------------------- sequences
RECURSIVE Ascending(_)
Ascending(S) ==
    IF S = {} THEN <<>>
    ELSE LET m == CHOOSE x \in S : \A y \in S : x <= y
         IN <<m>> \o Ascending(S \ {m})

Reverse(s) == [i \in 1..Len(s) |-> s[Len(s) + 1 - i]]

Range(s) == {s[i] : i \in DOMAIN s}

\* Row orders in which run.genomes.all() may list a run's genomes: the ids
\* of any subset of the registered genomes, ascending or descending.
GenomeLists == {Ascending(S) : S \in SUBSET GenomeIds}
                 \cup {Reverse(Ascending(S)) : S \in SUBSET GenomeIds}

\* itertools.combinations(genomes, 2): pairs in index order.
RECURSIVE combinations(_)
combinations(s) ==
    IF Len(s) < 2 THEN <<>>
    ELSE [k \in 1..(Len(s) - 1) |-> <<s[1], s[k + 1]>>] \o combinations(Tail(s))

\* ------------------------------------------------------------ arithmetic
RECURSIVE GCD(_, _)
GCD(a, b) == IF b = 0 THEN a ELSE GCD(b, a % b)

\* A float value n/d (d > 0, n >= 0), kept in lowest terms so that equal
\* values are equal.
Frac(n, d) == LET g == GCD(n, d) IN <<n \div g, d \div g>>

One == Frac(1, 1)

Mul(x, y) == Frac(x[1] * y[1], x[2] * y[2])

\* 1 - x, for 0 <= x <= 1.
OneMinus(x) == Frac(x[2] - x[1], x[2])

\* ------------------------------------------------------------------ state
VARIABLES
    pc,                 \* position inside subcmd_anim, or "idle"/"done"/"fatal"
    error,              \* name of the exception that ended the invocation
    nruns,              \* invocations started so far
    store,              \* committed rows of the Comparison table, in id order
    nucmer_version,     \* anim.get_version(args.nucmer_exe)
    args,               \* command-line arguments of the invocation
    listing,            \* os.listdir(deltadir) as the invocation finds it
    genomes,            \* run.genomes.all()
    run,                \* the Run object of the invocation
    comparisons_to_run, \* work set left by deduplication
    existingfiles,      \* value bound by the recovery scan
    joblist,            \* ComparisonJob list
    nodestate,          \* executor's view of the dependency graph nodes
    dispatch,           \* what the dispatch call of this invocation did
    pending,            \* Comparisons appended to the Run but not committed
    store0,             \* the Comparison table when the invocation started
    history,            \* (genomes, version, maxmatch) of completed invocations
    retry_pc,           \* position inside entrez_retry, or "idle"
    retries,            \* entrez_retry's argument retries
    tries,              \* entrez_retry's local tries
    success,            \* entrez_retry's local success
    output,             \* entrez_retry's local output, None while unbound
    calls,              \* what func did on each call made so far
    raised              \* exception that left entrez_retry, "" if none

\* The state of subcmd_anim and the state of entrez_retry.
anim_vars == <<pc, error, nruns, store, nucmer_version, args, listing, genomes,
               run, comparisons_to_run, existingfiles, joblist, nodestate,
               dispatch, pending, store0, history>>

download_vars == <<retry_pc, retries, tries, success, output, calls, raised>>

vars == <<anim_vars, download_vars>>

\* ------------------------------------------------------------ Comparison
\* Variant: the two genome ids enter the key in ascending order.
KeySorted(c) ==
    <<IF c.query_id < c.subject_id THEN c.query_id ELSE c.subject_id,
      IF c.query_id < c.subject_id THEN c.subject_id ELSE c.query_id,
      c.program, c.version, c.fragsize, c.maxmatch>>

\* Composite key of a Comparison row.
Key(c) == <<c.query_id, c.subject_id, c.program, c.version, c.fragsize, c.maxmatch>>

\* existing_comparisons: the dict built from session.query(Comparison).all();
\* a later row with the same key replaces an earlier one.
existing_comparisons(rows) ==
    LET keys == {Key(rows[i]) : i \in DOMAIN rows}
        last(k) == CHOOSE i \in DOMAIN rows :
                      /\ Key(rows[i]) = k
                      /\ \A j \in DOMAIN rows : Key(rows[j]) = k => j <= i
    IN [k \in keys |-> rows[last(k)]]

\* Variant: subject and query in the other order.
LookupKeyReversed(pair, version, maxmatch) ==
    <<pair[2], pair[1], "nucmer", version, None, maxmatch>>

\* The key looked up for a candidate pair.
LookupKey(pair, version, maxmatch) ==
    <<pair[1], pair[2], "nucmer", version, None, maxmatch>>

\* Pairs whose key is in the dict (reused) ...
ReusedPairs(pairs, existing, version, maxmatch) ==
    LET found(p) == LookupKey(p, version, maxmatch) \in DOMAIN existing
    IN SelectSeq(pairs, found)

\* Variant: no pair is removed from the list of comparisons to perform.
PairsToRunAll(pairs, existing, version, maxmatch) == pairs

\* ... and pairs whose lookup raises KeyError (the work set).
PairsToRun(pairs, existing, version, maxmatch) ==
    LET missing(p) == LookupKey(p, version, maxmatch) \notin DOMAIN existing
    IN SelectSeq(pairs, missing)

\* Variant: the existing record is looked up but not appended.
AttachNothing(cmps, pairs, existing, version, maxmatch) == cmps

\* run.comparisons after the deduplication loop.
AttachExisting(cmps, pairs, existing, version, maxmatch) ==
    LET reused == ReusedPairs(pairs, existing, version, maxmatch)
    IN cmps \o [i \in DOMAIN reused |->
                    existing[LookupKey(reused[i], version, maxmatch)]]

\* The Comparison built for a job from the parser's result; a division by
\* zero raises.
DerivedFields(aln_length, sim_errs, qlen, slen) ==
    IF qlen = 0 \/ slen = 0 \/ aln_length = 0 THEN Raise("ZeroDivisionError")
    ELSE Return([cov_query |-> Frac(aln_length, qlen),
                 cov_subject |-> Frac(aln_length, slen),
                 identity |-> OneMinus(Frac(sim_errs, aln_length))])

\* Variant: the row is stored without the maxmatch setting of the run.
ComparisonDefaultMaxmatch(id, job, result, version, maxmatch) ==
    LET d == DerivedFields(result[1], result[2], GenomeLength(job.query),
                           GenomeLength(job.subject)).value
    IN [comparison_id |-> id,
        query_id |-> job.query,
        subject_id |-> job.subject,
        aln_length |-> result[1],
        sim_errs |-> result[2],
        identity |-> d.identity,
        cov_query |-> d.cov_query,
        cov_subject |-> d.cov_subject,
        program |-> "nucmer",
        version |-> version,
        fragsize |-> None,
        maxmatch |-> FALSE]

Comparison(id, job, result, version, maxmatch) ==
    LET d == DerivedFields(result[1], result[2], GenomeLength(job.query),
                           GenomeLength(job.subject)).value
    IN [comparison_id |-> id,
        query_id |-> job.query,
        subject_id |-> job.subject,
        aln_length |-> result[1],
        sim_errs |-> result[2],
        identity |-> d.identity,
        cov_query |-> d.cov_query,
        cov_subject |-> d.cov_subject,
        program |-> "nucmer",
        version |-> version,
        fragsize |-> None,
        maxmatch |-> maxmatch]

\* ------------------------------------------------------------------ files
\* A path: directory, file stem and extension.
Path(dir, base, ext) == [dir |-> dir, base |-> base, ext |-> ext]

\* os.path.split(path)[-1]: the file name without its directory.
Basename(path) == [base |-> path.base, ext |-> path.ext]

\* os.path.splitext(fname)[-1]
Splitext(fname) == fname.ext

\* Suffix of the final output: ".delta" without filtering, else ".filter".
Suffix(nofilter) == IF nofilter THEN ".delta" ELSE ".filter"

\* anim.construct_nucmer_cmdline: the NUCmer command line as its list of
\* words, and the delta-filter command line; the fourth word of the NUCmer
\* command is the output prefix.
construct_nucmer_cmdline(query, subject, maxmatch) ==
    LET outprefix == Path("nucmer_output", <<query, subject>>, "")
        mode == IF maxmatch THEN "--maxmatch" ELSE "--mum"
    IN <<  <<"nucmer", mode, "-p", outprefix, query, subject>>,
           <<"delta-filter", "-1", [outprefix EXCEPT !.ext = ".delta"],
             ">", [outprefix EXCEPT !.ext = ".filter"]>>  >>

\* File names the output directory may hold for the candidate pairs.
OutputNames(pairs) ==
    {[base |-> pairs[i], ext |-> e] : i \in DOMAIN pairs, e \in {".delta", ".filter"}}

\* ------------------------------------------------------- recovery scanner
\* The list comprehension of collect_existing_output.
listed_output(files, nofilter) == {fname \in files : Splitext(fname) = Suffix(nofilter)}

\* collect_existing_output(dirpath, args, logger): the function body builds
\* the list and ends without a return statement.
collect_existing_output_params == <<"dirpath", "args", "logger">>

collect_existing_output(files, nofilter) ==
    LET found == listed_output(files, nofilter) IN Return(None)

\* The call made by subcmd_anim, collect_existing_output(deltadir, args):
\* a call with too few positional arguments raises TypeError.
scan_call_args == <<"deltadir", "args">>

CallRecoveryScan(files, nofilter) ==
    IF Len(scan_call_args) # Len(collect_existing_output_params)
    THEN Raise("TypeError")
    ELSE collect_existing_output(files, nofilter)

\* ------------------------------------------------------------ job builder
\* pyani_jobs.Job(name, command) and Job.add_dependency.
Job(name, command) == [name |-> name, command |-> command, dependencies |-> <<>>]

add_dependency(job, dep) == [job EXCEPT !.dependencies = Append(@, dep)]

\* Variant: the filter job is not linked to the NUCmer job.
FilterJobUnlinked(idx, dcmd, njob) == Job(<<idx, "f">>, dcmd)

\* The filter job of a pair, linked to its NUCmer job.
FilterJob(idx, dcmd, njob) == add_dependency(Job(<<idx, "f">>, dcmd), njob)

\* Variant: every filter job is made to wait for the alignment job of the
\* first pair as well.
BuildJobChained(idx, pair, a) ==
    LET cmds == construct_nucmer_cmdline(pair[1], pair[2], a.maxmatch)
        ncmd == cmds[1]
        dcmd == cmds[2]
        outprefix == ncmd[4]
        outfname == [outprefix EXCEPT !.ext = Suffix(a.nofilter)]
        njob == Job(<<idx, "n">>, ncmd)
        fjob == FilterJob(idx, dcmd, njob)
        first == Job(<<0, "n">>, ncmd)
    IN [query |-> pair[1], subject |-> pair[2], filtercmd |-> dcmd,
        nucmercmd |-> ncmd, outfile |-> outfname,
        job |-> IF idx = 0 THEN fjob ELSE add_dependency(fjob, first)]

\* ComparisonJob built for the pair at (0-based) position idx.
BuildJob(idx, pair, a) ==
    LET cmds == construct_nucmer_cmdline(pair[1], pair[2], a.maxmatch)
        ncmd == cmds[1]
        dcmd == cmds[2]
        outprefix == ncmd[4]
        outfname == [outprefix EXCEPT !.ext = Suffix(a.nofilter)]
        njob == Job(<<idx, "n">>, ncmd)
        fjob == FilterJob(idx, dcmd, njob)
    IN [query |-> pair[1], subject |-> pair[2], filtercmd |-> dcmd,
        nucmercmd |-> ncmd, outfile |-> outfname, job |-> fjob]

\* Whether the pair's job is left out: recovery mode and the final output
\* already listed.
Recovered(job, files, a) == a.recovery /\ Basename(job.outfile) \in files[1]

\* Variant: the loop stops one pair early.
generate_joblist_short(pairs, files, a) ==
    Return([i \in 1..(Len(pairs) - 1) |-> BuildJob(i - 1, pairs[i], a)])

\* generate_joblist(comparisons, existingfiles, args, logger); a membership
\* test against None raises TypeError.
generate_joblist(pairs, files, a) ==
    IF a.recovery /\ files = None /\ pairs # <<>> THEN Raise("TypeError")
    ELSE LET all == [i \in DOMAIN pairs |-> BuildJob(i - 1, pairs[i], a)]
             built(j) == ~Recovered(j, files, a)
         IN Return(SelectSeq(all, built))

\* Variant: a committed row replaces the rows already stored for the same
\* query and subject.
CommitRowsUpsert(rows, new) ==
    LET kept(r) == \A i \in DOMAIN new :
                       new[i].query_id # r.query_id \/ new[i].subject_id # r.subject_id
    IN SelectSeq(rows, kept) \o new

\* session.commit() after the loop of session.add: the new rows join the
\* table.
CommitRows(rows, new) == rows \o new

\* ------------------------------------------------------ matrix synthesis
\* Variant: the frames are created filled with zeros.
DataFrameZeros(genome_ids) ==
    [index |-> genome_ids, columns |-> genome_ids,
     cells |-> [p \in Range(genome_ids) \X Range(genome_ids) |-> Frac(0, 1)]]

\* pd.DataFrame(index=genome_ids, columns=genome_ids, dtype=float): every
\* cell unset.
DataFrame(genome_ids) ==
    [index |-> genome_ids, columns |-> genome_ids,
     cells |-> [p \in Range(genome_ids) \X Range(genome_ids) |-> NaN]]

\* np.fill_diagonal(df.values, value)
fill_diagonal(df, value) ==
    [df EXCEPT !.cells = [p \in DOMAIN @ |-> IF p[1] = p[2] THEN value ELSE @[p]]]

\* df.loc[row, col] = value
SetLoc(df, row, col, value) == [df EXCEPT !.cells[<<row, col>>] = value]

\* Variant: the alignment-length diagonal is filled with 1.0 like the others.
SetLengthsUnit(df, ids) ==
    [df EXCEPT !.cells = [p \in DOMAIN @ |-> IF p[1] = p[2] THEN <<1, 1>> ELSE @[p]]]

\* The diagonal of the alignment-length frame: each genome's own length.
RECURSIVE SetLengths(_, _)
SetLengths(df, ids) ==
    IF ids = <<>> THEN df
    ELSE SetLengths(SetLoc(df, Head(ids), Head(ids), Frac(GenomeLength(Head(ids)), 1)),
                    Tail(ids))

\* Variant: the identity is written to the cell [query, subject] only.
AddComparisonIdentityOneWay(f, cmp) ==
    LET qid == cmp.query_id
        sid == cmp.subject_id
    IN [df_identity |-> SetLoc(f.df_identity, qid, sid, cmp.identity),
        df_coverage |-> SetLoc(SetLoc(f.df_coverage, qid, sid, cmp.cov_query),
                               sid, qid, cmp.cov_subject),
        df_alnlength |-> SetLoc(SetLoc(f.df_alnlength, qid, sid, Frac(cmp.aln_length, 1)),
                                sid, qid, Frac(cmp.aln_length, 1)),
        df_simerrors |-> SetLoc(SetLoc(f.df_simerrors, qid, sid, Frac(cmp.sim_errs, 1)),
                                sid, qid, Frac(cmp.sim_errs, 1)),
        df_hadamard |-> SetLoc(SetLoc(f.df_hadamard, qid, sid,
                                      Mul(cmp.identity, cmp.cov_query)),
                               sid, qid, Mul(cmp.identity, cmp.cov_subject))]

\* Variant: the query coverage is written to both coverage cells.
AddComparisonCoverageMirrored(f, cmp) ==
    LET qid == cmp.query_id
        sid == cmp.subject_id
    IN [df_identity |-> SetLoc(SetLoc(f.df_identity, qid, sid, cmp.identity),
                               sid, qid, cmp.identity),
        df_coverage |-> SetLoc(SetLoc(f.df_coverage, qid, sid, cmp.cov_query),
                               sid, qid, cmp.cov_query),
        df_alnlength |-> SetLoc(SetLoc(f.df_alnlength, qid, sid, Frac(cmp.aln_length, 1)),
                                sid, qid, Frac(cmp.aln_length, 1)),
        df_simerrors |-> SetLoc(SetLoc(f.df_simerrors, qid, sid, Frac(cmp.sim_errs, 1)),
                                sid, qid, Frac(cmp.sim_errs, 1)),
        df_hadamard |-> SetLoc(SetLoc(f.df_hadamard, qid, sid,
                                      Mul(cmp.identity, cmp.cov_query)),
                               sid, qid, Mul(cmp.identity, cmp.cov_subject))]

\* Variant: both Hadamard cells are computed from the query coverage.
AddComparisonHadamardMirrored(f, cmp) ==
    LET qid == cmp.query_id
        sid == cmp.subject_id
    IN [df_identity |-> SetLoc(SetLoc(f.df_identity, qid, sid, cmp.identity),
                               sid, qid, cmp.identity),
        df_coverage |-> SetLoc(SetLoc(f.df_coverage, qid, sid, cmp.cov_query),
                               sid, qid, cmp.cov_subject),
        df_alnlength |-> SetLoc(SetLoc(f.df_alnlength, qid, sid, Frac(cmp.aln_length, 1)),
                                sid, qid, Frac(cmp.aln_length, 1)),
        df_simerrors |-> SetLoc(SetLoc(f.df_simerrors, qid, sid, Frac(cmp.sim_errs, 1)),
                                sid, qid, Frac(cmp.sim_errs, 1)),
        df_hadamard |-> SetLoc(SetLoc(f.df_hadamard, qid, sid,
                                      Mul(cmp.identity, cmp.cov_query)),
                               sid, qid, Mul(cmp.identity, cmp.cov_query))]

\* One pass of the loop over run.comparisons.all().
AddComparison(f, cmp) ==
    LET qid == cmp.query_id
        sid == cmp.subject_id
    IN [df_identity |-> SetLoc(SetLoc(f.df_identity, qid, sid, cmp.identity),
                               sid, qid, cmp.identity),
        df_coverage |-> SetLoc(SetLoc(f.df_coverage, qid, sid, cmp.cov_query),
                               sid, qid, cmp.cov_subject),
        df_alnlength |-> SetLoc(SetLoc(f.df_alnlength, qid, sid, Frac(cmp.aln_length, 1)),
                                sid, qid, Frac(cmp.aln_length, 1)),
        df_simerrors |-> SetLoc(SetLoc(f.df_simerrors, qid, sid, Frac(cmp.sim_errs, 1)),
                                sid, qid, Frac(cmp.sim_errs, 1)),
        df_hadamard |-> SetLoc(SetLoc(f.df_hadamard, qid, sid,
                                      Mul(cmp.identity, cmp.cov_query)),
                               sid, qid, Mul(cmp.identity, cmp.cov_subject))]

RECURSIVE FillFrames(_, _)
FillFrames(f, cmps) ==
    IF cmps = <<>> THEN f ELSE FillFrames(AddComparison(f, Head(cmps)), Tail(cmps))

\* The five frames before the loop: diagonals set.
InitialFrames(genome_list) ==
    LET genome_ids == Ascending(Range(genome_list))
    IN [df_identity |-> fill_diagonal(DataFrame(genome_ids), One),
        df_coverage |-> fill_diagonal(DataFrame(genome_ids), One),
        df_alnlength |-> SetLengths(DataFrame(genome_ids), genome_list),
        df_simerrors |-> fill_diagonal(DataFrame(genome_ids), One),
        df_hadamard |-> fill_diagonal(DataFrame(genome_ids), One)]

\* update_comparison_matrices(run, session, args, logger): the Run with its
\* five matrix fields assigned.
update_comparison_matrices(r, genome_list) ==
    LET f == FillFrames(InitialFrames(genome_list), r.comparisons)
    IN [r EXCEPT !.df_identity = Some(f.df_identity),
                 !.df_coverage = Some(f.df_coverage),
                 !.df_alnlength = Some(f.df_alnlength),
                 !.df_simerrors = Some(f.df_simerrors),
                 !.df_hadamard = Some(f.df_hadamard)]

\* Run(method="ANIm", ..., status="started", ...) as added to the session.
NewRun ==
    [method |-> "ANIm", status |-> "started", comparisons |-> <<>>,
     df_identity |-> None, df_coverage |-> None, df_alnlength |-> None,
     df_simerrors |-> None, df_hadamard |-> None]

\* ------------------------------------------------------ result ingestion
\* Position of the first job whose parse or derivation raises, 0 if none.
FirstRaise(jobs, results) ==
    LET bad == {i \in DOMAIN jobs :
                  \/ results[i] = Unreadable
                  \/ DerivedFields(results[i][1], results[i][2],
                                   GenomeLength(jobs[i].query),
                                   GenomeLength(jobs[i].subject)).exc # ""}
    IN IF bad = {} THEN 0 ELSE CHOOSE i \in bad : \A j \in bad : i <= j

\* Exception raised for a job's parser result.
RaisedBy(job, result) ==
    IF result = Unreadable THEN "ParseError"
    ELSE DerivedFields(result[1], result[2], GenomeLength(job.query),
                       GenomeLength(job.subject)).exc

\* Comparisons appended by the first n passes of the loop of
\* update_comparison_results; ids follow the rows already in the table.
Appended(jobs, results, n, rows, version, maxmatch) ==
    [i \in 1..n |-> Comparison(Len(rows) + i, jobs[i], results[i], version, maxmatch)]

\* --------------------------------------------------------------- executor
\* The nodes of the graph handed to run_dependency_graph: the jobs in the
\* list and, through their dependencies, the jobs they wait for.
RECURSIVE GraphNodes(_)
GraphNodes(S) ==
    LET T == S \cup UNION {Range(j.dependencies) : j \in S}
    IN IF T = S THEN S ELSE GraphNodes(T)

\* Variant: the alignment jobs are put in the list next to the filter jobs.
HandedJobsBoth(jobs) ==
    {jobs[i].job : i \in DOMAIN jobs}
      \cup UNION {Range(jobs[i].job.dependencies) : i \in DOMAIN jobs}

\* [_.job for _ in joblist]
HandedJobs(jobs) == {jobs[i].job : i \in DOMAIN jobs}

\* A node may start once every predecessor has succeeded.
Runnable(ns, n) ==
    /\ ns[n.name] = "pending"
    /\ \A d \in Range(n.dependencies) : ns[d.name] = "ok"

\* The call returns when no node is running or can still start.
Settled(ns, nodes) ==
    \A n \in nodes : ns[n.name] # "running" /\ ~Runnable(ns, n)

\* Where a node ends when the nodes named in F are the ones that fail if run.
RECURSIVE FinalStatus(_, _)
FinalStatus(n, F) ==
    IF \E d \in Range(n.dependencies) : FinalStatus(d, F) # "ok" THEN "pending"
    ELSE IF n.name \in F THEN "failed" ELSE "ok"

\* The node states a whole execution of the graph may end in.
FinalStates(nodes) ==
    {[name \in {n.name : n \in nodes} |->
        FinalStatus(CHOOSE n \in nodes : n.name = name, F)] :
     F \in SUBSET {n.name : n \in nodes}}

FailedNodes(ns) == Cardinality({name \in DOMAIN ns : ns[name] = "failed"})

\* Variant: a single failure is let through.
DispatchReturnOffByOne(scheduler, failed) ==
    IF scheduler = "multiprocessing" /\ 1 < failed
    THEN Raise("PyaniException") ELSE Return(None)

\* Variant: the return value of the executor is not looked at.
DispatchReturnIgnored(scheduler, failed) == Return(None)

\* run_anim_jobs after the executor has returned: the multiprocessing path
\* raises when the cumulative return value is positive, the SGE path
\* returns whatever happened.
DispatchReturn(scheduler, failed) ==
    IF scheduler = "multiprocessing"
    THEN LET cumval == failed
         IN IF 0 < cumval THEN Raise("PyaniException") ELSE Return(None)
    ELSE Return(None)

\* ---------------------------------------------------------------- actions
NoDispatch == [called |-> FALSE, returned |-> FALSE, failed |-> 0]

\* No call of entrez_retry is under way.
RetryIdle ==
    /\ retry_pc = "idle"
    /\ retries = 0
    /\ tries = 0
    /\ success = FALSE
    /\ output = None
    /\ calls = <<>>
    /\ raised = ""

Init ==
    /\ RetryIdle
    /\ pc = "idle"
    /\ error = ""
    /\ nruns = 0
    /\ store = <<>>
    /\ nucmer_version = "3.1"
    /\ args = [maxmatch |-> FALSE, recovery |-> FALSE, nofilter |-> FALSE,
               scheduler |-> "multiprocessing"]
    /\ listing = {}
    /\ genomes = <<>>
    /\ run = NewRun
    /\ comparisons_to_run = <<>>
    /\ existingfiles = None
    /\ joblist = <<>>
    /\ nodestate = <<>>
    /\ dispatch = NoDispatch
    /\ pending = <<>>
    /\ store0 = <<>>
    /\ history = {}

\* What a completed invocation leaves in the history.
Config == [genomes |-> genomes, version |-> nucmer_version, maxmatch |-> args.maxmatch]

\* A new process: nothing of the previous invocation survives but the
\* database.
NewInvocation ==
    /\ pc \in {"idle", "done", "fatal"}
    /\ nruns' = nruns + 1
    /\ history' = IF pc = "done" THEN history \cup {Config} ELSE history
    /\ store0' = store
    /\ run' = NewRun
    /\ comparisons_to_run' = <<>>
    /\ existingfiles' = None
    /\ joblist' = <<>>
    /\ nodestate' = <<>>
    /\ dispatch' = NoDispatch
    /\ pending' = <<>>
    /\ UNCHANGED store
    /\ UNCHANGED download_vars

\* Directory contents a recovery run may find; the directory is read in
\* recovery mode only.
Listings(recovery, pairs) ==
    IF recovery
    THEN {S \in SUBSET OutputNames(pairs) : Cardinality(S) <= MaxListing}
    ELSE {{}}

\* subcmd_anim up to the list of candidate pairs: version, session, Run and
\* genomes added to the database.
Start(limit) ==
    /\ nruns < limit
    /\ NewInvocation
    /\ \E v \in Versions, g \in GenomeLists, sch \in Schedulers,
          mm \in BOOLEAN, rec \in BOOLEAN, nof \in BOOLEAN :
          /\ nucmer_version' = v
          /\ genomes' = g
          /\ args' = [maxmatch |-> mm, recovery |-> rec, nofilter |-> nof,
                      scheduler |-> sch]
          /\ \E ls \in Listings(rec, combinations(g)) : listing' = ls
    /\ pc' = "dedup"
    /\ error' = ""

StartRun == Start(MaxRuns)

\* Variant: the failure to add the genomes is noticed only after the
\* deduplication loop.
ConnectFailureLate ==
    /\ pc = "recovery"
    /\ pc' = "fatal"
    /\ error' = "SystemExit"
    /\ UNCHANGED <<nruns, store, nucmer_version, args, listing, genomes, run,
                   comparisons_to_run, existingfiles, joblist, nodestate,
                   dispatch, pending, store0, history>>
    /\ UNCHANGED download_vars

\* get_session, the insertion of the Run or add_run_genomes raises:
\* SystemExit(1).
ConnectFailure ==
    /\ nruns < MaxRuns
    /\ NewInvocation
    /\ \E v \in Versions : nucmer_version' = v
    /\ genomes' = <<>>
    /\ listing' = {}
    /\ UNCHANGED args
    /\ pc' = "fatal"
    /\ error' = "SystemExit"

\* Variant: with nothing left to run the function raises PyaniException
\* instead of writing the matrices.
DeduplicateExits ==
    /\ pc = "dedup"
    /\ LET existing == existing_comparisons(store)
           pairs == combinations(genomes)
           todo == PairsToRun(pairs, existing, nucmer_version, args.maxmatch)
       IN /\ comparisons_to_run' = todo
          /\ run' = [run EXCEPT !.comparisons =
                        AttachExisting(@, pairs, existing, nucmer_version,
                                       args.maxmatch)]
          /\ IF Len(todo) = 0
             THEN pc' = "fatal" /\ error' = "PyaniException"
             ELSE pc' = "recovery" /\ UNCHANGED error
    /\ UNCHANGED <<nruns, store, nucmer_version, args, listing, genomes,
                   existingfiles, joblist, nodestate, dispatch, pending, store0,
                   history>>
    /\ UNCHANGED download_vars

\* Variant: the recovery scan and the job builder are called before the
\* work set is tested.
DeduplicateNoShortcut ==
    /\ pc = "dedup"
    /\ LET existing == existing_comparisons(store)
           pairs == combinations(genomes)
       IN /\ comparisons_to_run' =
                PairsToRun(pairs, existing, nucmer_version, args.maxmatch)
          /\ run' = [run EXCEPT !.comparisons =
                        AttachExisting(@, pairs, existing, nucmer_version,
                                       args.maxmatch)]
          /\ pc' = "recovery"
    /\ UNCHANGED <<error, nruns, store, nucmer_version, args, listing, genomes,
                   existingfiles, joblist, nodestate, dispatch, pending, store0,
                   history>>
    /\ UNCHANGED download_vars

\* The deduplication loop; with nothing left to run, the matrices are
\* written and subcmd_anim returns.
Deduplicate ==
    /\ pc = "dedup"
    /\ LET existing == existing_comparisons(store)
           pairs == combinations(genomes)
           todo == PairsToRun(pairs, existing, nucmer_version, args.maxmatch)
           attached == [run EXCEPT !.comparisons =
                          AttachExisting(@, pairs, existing, nucmer_version,
                                         args.maxmatch)]
       IN /\ comparisons_to_run' = todo
          /\ IF Len(todo) = 0
             THEN /\ run' = update_comparison_matrices(attached, genomes)
                  /\ pc' = "done"
             ELSE /\ run' = attached
                  /\ pc' = "recovery"
    /\ UNCHANGED <<error, nruns, store, nucmer_version, args, listing, genomes,
                   existingfiles, joblist, nodestate, dispatch, pending, store0,
                   history>>
    /\ UNCHANGED download_vars

\* if args.recovery: existingfiles = collect_existing_output(deltadir, args)
RecoveryScan ==
    /\ pc = "recovery"
    /\ LET r == IF args.recovery THEN CallRecoveryScan(listing, args.nofilter)
                ELSE Return(None)
       IN IF r.exc # ""
          THEN pc' = "fatal" /\ error' = r.exc /\ UNCHANGED existingfiles
          ELSE pc' = "build" /\ existingfiles' = r.value /\ UNCHANGED error
    /\ UNCHANGED <<nruns, store, nucmer_version, args, listing, genomes, run,
                   comparisons_to_run, joblist, nodestate, dispatch, pending,
                   store0, history>>
    /\ UNCHANGED download_vars

\* joblist = generate_joblist(comparisons_to_run, existingfiles, args, logger)
GenerateJoblist ==
    /\ pc = "build"
    /\ LET r == generate_joblist(comparisons_to_run, existingfiles, args)
       IN IF r.exc # ""
          THEN pc' = "fatal" /\ error' = r.exc /\ UNCHANGED joblist
          ELSE pc' = "dispatch" /\ joblist' = r.value /\ UNCHANGED error
    /\ UNCHANGED <<nruns, store, nucmer_version, args, listing, genomes, run,
                   comparisons_to_run, existingfiles, nodestate, dispatch,
                   pending, store0, history>>
    /\ UNCHANGED download_vars

\* run_anim_jobs once the executor has ended with `failed` failed nodes.
Returned(failed) ==
    LET r == DispatchReturn(args.scheduler, failed)
    IN /\ dispatch' = [called |-> TRUE, returned |-> TRUE, failed |-> failed]
       /\ IF r.exc # ""
          THEN pc' = "fatal" /\ error' = r.exc
          ELSE pc' = "ingest" /\ UNCHANGED error

\* Variant: a failed dispatch takes the reused Comparisons off the Run.
RunAnimJobsRollback ==
    /\ pc = "dispatch"
    /\ \E final \in FinalStates(GraphNodes(HandedJobs(joblist))) :
          /\ Returned(FailedNodes(final))
          /\ run' = IF DispatchReturn(args.scheduler, FailedNodes(final)).exc # ""
                    THEN [run EXCEPT !.comparisons = <<>>]
                    ELSE run
    /\ UNCHANGED <<nruns, store, nucmer_version, args, listing, genomes,
                   comparisons_to_run, existingfiles, joblist, nodestate,
                   pending, store0, history>>
    /\ UNCHANGED download_vars

\* run_anim_jobs(joblist, args, logger), the whole call.
RunAnimJobs ==
    /\ pc = "dispatch"
    /\ \E final \in FinalStates(GraphNodes(HandedJobs(joblist))) :
          Returned(FailedNodes(final))
    /\ UNCHANGED <<nruns, store, nucmer_version, args, listing, genomes, run,
                   comparisons_to_run, existingfiles, joblist, nodestate,
                   pending, store0, history>>
    /\ UNCHANGED download_vars

\* Results the parser may give: a file no node failure left behind is
\* readable.
Outcomes == IF dispatch.failed = 0 THEN ParseResults ELSE ParseResults \cup {Unreadable}

\* Variant: every Comparison is committed as soon as it is appended.
UpdateComparisonResultsEager ==
    /\ pc = "ingest"
    /\ \E results \in [DOMAIN joblist -> Outcomes] :
          LET k == FirstRaise(joblist, results)
          IN IF k = 0
             THEN LET new == Appended(joblist, results, Len(joblist), store,
                                      nucmer_version, args.maxmatch)
                  IN /\ run' = [run EXCEPT !.comparisons = @ \o new]
                     /\ store' = CommitRows(store, new)
                     /\ pending' = <<>>
                     /\ pc' = "matrices"
                     /\ UNCHANGED error
             ELSE LET new == Appended(joblist, results, k - 1, store,
                                      nucmer_version, args.maxmatch)
                  IN /\ run' = [run EXCEPT !.comparisons = @ \o new]
                     /\ store' = CommitRows(store, new)
                     /\ pending' = <<>>
                     /\ pc' = "fatal"
                     /\ error' = RaisedBy(joblist[k], results[k])
    /\ UNCHANGED <<nruns, nucmer_version, args, listing, genomes,
                   comparisons_to_run, existingfiles, joblist, nodestate,
                   dispatch, store0, history>>
    /\ UNCHANGED download_vars

\* update_comparison_results(joblist, run, session, nucmer_version, args,
\* logger): the loop over the jobs, then the commit.
UpdateComparisonResults ==
    /\ pc = "ingest"
    /\ \E results \in [DOMAIN joblist -> Outcomes] :
          LET k == FirstRaise(joblist, results)
          IN IF k = 0
             THEN LET new == Appended(joblist, results, Len(joblist), store,
                                      nucmer_version, args.maxmatch)
                  IN /\ run' = [run EXCEPT !.comparisons = @ \o new]
                     /\ store' = CommitRows(store, new)
                     /\ pending' = <<>>
                     /\ pc' = "matrices"
                     /\ UNCHANGED error
             ELSE /\ pending' = Appended(joblist, results, k - 1, store,
                                         nucmer_version, args.maxmatch)
                  /\ pc' = "fatal"
                  /\ error' = RaisedBy(joblist[k], results[k])
                  /\ UNCHANGED <<run, store>>
    /\ UNCHANGED <<nruns, nucmer_version, args, listing, genomes,
                   comparisons_to_run, existingfiles, joblist, nodestate,
                   dispatch, store0, history>>
    /\ UNCHANGED download_vars

\* update_comparison_matrices(run, session, args, logger) after ingestion.
UpdateComparisonMatrices ==
    /\ pc = "matrices"
    /\ run' = update_comparison_matrices(run, genomes)
    /\ pc' = "done"
    /\ UNCHANGED <<error, nruns, store, nucmer_version, args, listing, genomes,
                   comparisons_to_run, existingfiles, joblist, nodestate,
                   dispatch, pending, store0, history>>
    /\ UNCHANGED download_vars

Next ==
    \/ StartRun
    \/ ConnectFailure
    \/ Deduplicate
    \/ RecoveryScan
    \/ GenerateJoblist
    \/ RunAnimJobs
    \/ UpdateComparisonResults
    \/ UpdateComparisonMatrices

Spec == Init /\ [][Next]_vars

\* ------------------------------------------- dispatch, one node at a time
\* run_anim_jobs hands [_.job for _ in joblist] to the executor.
SubmitGraph ==
    /\ pc = "dispatch"
    /\ nodestate' = [name \in {n.name : n \in GraphNodes(HandedJobs(joblist))}
                       |-> "pending"]
    /\ dispatch' = [called |-> TRUE, returned |-> FALSE, failed |-> 0]
    /\ pc' = "running"
    /\ UNCHANGED <<error, nruns, store, nucmer_version, args, listing, genomes,
                   run, comparisons_to_run, existingfiles, joblist, pending,
                   store0, history>>
    /\ UNCHANGED download_vars

\* The executor starts a node whose predecessors have all succeeded.
StartNode ==
    /\ pc = "running"
    /\ \E n \in GraphNodes(HandedJobs(joblist)) :
          /\ Runnable(nodestate, n)
          /\ nodestate' = [nodestate EXCEPT ![n.name] = "running"]
    /\ UNCHANGED <<pc, error, nruns, store, nucmer_version, args, listing,
                   genomes, run, comparisons_to_run, existingfiles, joblist,
                   dispatch, pending, store0, history>>
    /\ UNCHANGED download_vars

\* A running node's command exits, with status zero or not.
FinishNode ==
    /\ pc = "running"
    /\ \E name \in DOMAIN nodestate, status \in {"ok", "failed"} :
          /\ nodestate[name] = "running"
          /\ nodestate' = [nodestate EXCEPT ![name] = status]
    /\ UNCHANGED <<pc, error, nruns, store, nucmer_version, args, listing,
                   genomes, run, comparisons_to_run, existingfiles, joblist,
                   dispatch, pending, store0, history>>
    /\ UNCHANGED download_vars

\* Variant: run_anim_jobs returns without waiting for the graph.
CollectGraphEarly ==
    /\ pc = "running"
    /\ Returned(FailedNodes(nodestate))
    /\ nodestate' = <<>>
    /\ UNCHANGED <<nruns, store, nucmer_version, args, listing, genomes, run,
                   comparisons_to_run, existingfiles, joblist, pending, store0,
                   history>>
    /\ UNCHANGED download_vars

\* The executor returns to run_anim_jobs; its bookkeeping ends with it.
CollectGraph ==
    /\ pc = "running"
    /\ Settled(nodestate, GraphNodes(HandedJobs(joblist)))
    /\ Returned(FailedNodes(nodestate))
    /\ nodestate' = <<>>
    /\ UNCHANGED <<nruns, store, nucmer_version, args, listing, genomes, run,
                   comparisons_to_run, existingfiles, joblist, pending, store0,
                   history>>
    /\ UNCHANGED download_vars

\* One invocation on an empty database, its graph executed node by node.
StartOnce == Start(1)

NextGraph ==
    \/ StartOnce
    \/ Deduplicate
    \/ RecoveryScan
    \/ GenerateJoblist
    \/ SubmitGraph
    \/ StartNode
    \/ FinishNode
    \/ CollectGraph
    \/ UpdateComparisonResults
    \/ UpdateComparisonMatrices

SpecGraph == Init /\ [][NextGraph]_vars

\* Successive invocations on one database, each graph executed node by
\* node.
NextRuns ==
    \/ StartRun
    \/ Deduplicate
    \/ RecoveryScan
    \/ GenerateJoblist
    \/ SubmitGraph
    \/ StartNode
    \/ FinishNode
    \/ CollectGraph
    \/ UpdateComparisonResults
    \/ UpdateComparisonMatrices

SpecRuns == Init /\ [][NextRuns]_vars

\* ------------------------------------------ matrix synthesis on its own
\* How a pair of the run's genomes is covered by run.comparisons: by no
\* row, or by one row in either order.
MatrixDirections == {"none", "forward", "reverse"}

\* run.comparisons.all() for a choice d of direction per pair of genome ids.
AttachedRows(genome_list, d, result, version, maxmatch) ==
    LET pairs == combinations(Ascending(Range(genome_list)))
        chosen(i) == d[i] # "none"
        kept == SelectSeq([i \in DOMAIN pairs |-> i], chosen)
        ends(i) == IF d[kept[i]] = "forward"
                   THEN [query |-> pairs[kept[i]][1], subject |-> pairs[kept[i]][2]]
                   ELSE [query |-> pairs[kept[i]][2], subject |-> pairs[kept[i]][1]]
    IN [i \in DOMAIN kept |-> Comparison(i, ends(i), result, version, maxmatch)]

\* A Run about to be given to update_comparison_matrices: any genome list,
\* and at most one Comparison for each pair of its genomes.
InitMatrices ==
    /\ RetryIdle
    /\ pc = "matrices"
    /\ error = ""
    /\ nruns = 1
    /\ nucmer_version = "3.1"
    /\ args = [maxmatch |-> FALSE, recovery |-> FALSE, nofilter |-> FALSE,
               scheduler |-> "multiprocessing"]
    /\ listing = {}
    /\ \E g \in GenomeLists :
          \E d \in [DOMAIN combinations(Ascending(Range(g))) -> MatrixDirections] :
             \E result \in {r \in ParseResults : r[1] # 0} :
                /\ genomes = g
                /\ store = AttachedRows(g, d, result, "3.1", FALSE)
                /\ run = [NewRun EXCEPT !.comparisons =
                            AttachedRows(g, d, result, "3.1", FALSE)]
    /\ comparisons_to_run = <<>>
    /\ existingfiles = None
    /\ joblist = <<>>
    /\ nodestate = <<>>
    /\ dispatch = NoDispatch
    /\ pending = <<>>
    /\ store0 = <<>>
    /\ history = {}

NextMatrices == UpdateComparisonMatrices

SpecMatrices == InitMatrices /\ [][NextMatrices]_vars

\* ------------------------------------------------- download: entrez_retry
\* What the passed function may do when called: return a handle, or raise
\* one of the two caught exceptions or another one.
Handles == {<<"handle", 1>>, <<"handle", 2>>}

FuncOutcomes ==
    {Return(h) : h \in Handles}
      \cup {Raise(e) : e \in {"HTTPError", "URLError", "ValueError"}}

\* except (HTTPError, URLError)
Caught(exc) == exc \in {"HTTPError", "URLError"}

\* Variant: the loop allows one call more.
LoopConditionInclusive(s, n, limit) == ~s /\ n <= limit

\* while not success and tries < retries
LoopCondition(s, n, limit) == ~s /\ n < limit

\* entrez_retry(func, retries, ...) is entered: tries, success = 0, False.
EnterRetry ==
    /\ retry_pc = "idle"
    /\ \E n \in 0..MaxRetries : retries' = n
    /\ tries' = 0
    /\ success' = FALSE
    /\ output' = None
    /\ calls' = <<>>
    /\ raised' = ""
    /\ retry_pc' = "loop"
    /\ UNCHANGED anim_vars

\* One pass of the loop body: func is called.
CallFunc ==
    /\ retry_pc = "loop"
    /\ LoopCondition(success, tries, retries)
    /\ \E r \in FuncOutcomes :
          /\ calls' = Append(calls, r)
          /\ IF r.exc = ""
             THEN /\ output' = r.value
                  /\ success' = TRUE
                  /\ UNCHANGED <<tries, retry_pc, raised>>
             ELSE IF Caught(r.exc)
             THEN /\ tries' = tries + 1
                  /\ UNCHANGED <<output, success, retry_pc, raised>>
             ELSE /\ retry_pc' = "raised"
                  /\ raised' = r.exc
                  /\ UNCHANGED <<output, success, tries>>
    /\ UNCHANGED <<retries, anim_vars>>

\* The loop is left: NCBIDownloadException without success, else output is
\* returned.
LeaveLoop ==
    /\ retry_pc = "loop"
    /\ ~LoopCondition(success, tries, retries)
    /\ IF ~success
       THEN retry_pc' = "raised" /\ raised' = "NCBIDownloadException"
       ELSE retry_pc' = "returned" /\ UNCHANGED raised
    /\ UNCHANGED <<retries, tries, success, output, calls, anim_vars>>

NextRetry ==
    \/ EnterRetry
    \/ CallFunc
    \/ LeaveLoop

SpecRetry == Init /\ [][NextRetry]_vars

\* ------------------------------------------------------------- properties
\* The invocation got past the deduplication loop.
Deduplicated == pc \notin {"idle", "dedup"} /\ error # "SystemExit"

\* update_comparison_results was entered in this invocation.
IngestionEntered ==
    \/ pc = "matrices"
    \/ pc = "done" /\ dispatch.called
    \/ pc = "fatal" /\ error \in {"ZeroDivisionError", "ParseError"}

MatricesUnset ==
    /\ run.df_identity = None
    /\ run.df_coverage = None
    /\ run.df_alnlength = None
    /\ run.df_simerrors = None
    /\ run.df_hadamard = None

\* Rows of the table created by this invocation.
NewRows == {i \in DOMAIN store : i > Len(store0)}

C2_KeyUniqueness ==
    \A i, j \in DOMAIN store :
        i # j =>
            <<store[i].query_id, store[i].subject_id, store[i].program,
              store[i].version, store[i].fragsize, store[i].maxmatch>>
            # <<store[j].query_id, store[j].subject_id, store[j].program,
                store[j].version, store[j].fragsize, store[j].maxmatch>>

C2_Witness ==
    /\ nruns = MaxRuns
    /\ store0 # <<>>
    /\ NewRows # {}
    /\ \E i \in NewRows, j \in DOMAIN store0 :
          /\ store[i].query_id = store0[j].query_id
          /\ store[i].subject_id = store0[j].subject_id

\* C3 - Deduplication result: a candidate pair whose key is in the table has
\* the stored row attached to the Run, is not in the work set and gets no new
\* row; every other candidate pair is in the work set, and the work set holds
\* nothing else.
C3_DedupResult ==
    Deduplicated =>
        LET pairs == combinations(genomes)
            stored(p) == {j \in DOMAIN store0 :
                            /\ store0[j].query_id = p[1]
                            /\ store0[j].subject_id = p[2]
                            /\ store0[j].program = "nucmer"
                            /\ store0[j].version = nucmer_version
                            /\ store0[j].fragsize = None
                            /\ store0[j].maxmatch = args.maxmatch}
        IN /\ \A i \in DOMAIN pairs :
                IF stored(pairs[i]) # {}
                THEN /\ \E j \in stored(pairs[i]) : store0[j] \in Range(run.comparisons)
                     /\ pairs[i] \notin Range(comparisons_to_run)
                     /\ \A n \in NewRows :
                           <<store[n].query_id, store[n].subject_id>> # pairs[i]
                ELSE pairs[i] \in Range(comparisons_to_run)
           /\ Range(comparisons_to_run) \subseteq Range(pairs)

C3_Witness ==
    /\ pc = "recovery"
    /\ comparisons_to_run # <<>>
    /\ run.comparisons # <<>>

\* C4 - Local dispatch failure: when the multiprocessing executor reports a
\* positive cumulative value the invocation ends with PyaniException, no
\* Comparison is created and the Run's five matrix fields stay as they were.
C4_LocalDispatchFailure ==
    (args.scheduler = "multiprocessing" /\ dispatch.returned /\ dispatch.failed > 0) =>
        /\ pc = "fatal"
        /\ error = "PyaniException"
        /\ ~IngestionEntered
        /\ store = store0
        /\ pending = <<>>
        /\ MatricesUnset

C4_Witness ==
    /\ args.scheduler = "multiprocessing"
    /\ dispatch.returned
    /\ dispatch.failed > 0
    /\ pc = "fatal"
    /\ run.comparisons # <<>>

\* C5 - as claimed: whichever executor is chosen, after a dispatch in which
\* a node failed neither ingestion nor matrix synthesis occurs.
C5_NoIngestionAfterAnyFailure ==
    (dispatch.returned /\ dispatch.failed > 0) => ~IngestionEntered

\* C5 - as amended: ingestion is entered only after the dispatch call has
\* returned, and on the multiprocessing path only if no node failed; on the
\* SGE path node failures do not end the invocation.
C5_IngestionAfterReportedSuccess ==
    /\ (IngestionEntered \/ pc = "ingest") =>
          /\ dispatch.returned
          /\ args.scheduler = "multiprocessing" => dispatch.failed = 0
    /\ (args.scheduler = "SGE" /\ dispatch.returned) => error # "PyaniException"

C5_Witness ==
    /\ IngestionEntered
    /\ args.scheduler = "SGE"
    /\ dispatch.returned
    /\ dispatch.failed > 0

\* C6 - Dependency ordering: while the graph is executed, the filter node of
\* a job has left the pending state only if the job's alignment node has
\* succeeded; after a failed alignment the filter node stays pending.
C6_DependencyOrdering ==
    pc = "running" =>
        \A i \in DOMAIN joblist :
            LET fname == joblist[i].job.name
                nname == <<fname[1], "n">>
            IN nodestate[fname] # "pending" =>
                  /\ nname \in DOMAIN nodestate
                  /\ nodestate[nname] = "ok"

C6_Witness ==
    /\ pc = "running"
    /\ \E i, j \in DOMAIN joblist :
          /\ nodestate[joblist[i].job.name] = "running"
          /\ nodestate[<<joblist[i].job.name[1], "n">>] = "ok"
          /\ nodestate[<<joblist[j].job.name[1], "n">>] = "failed"
          /\ nodestate[joblist[j].job.name] = "pending"

\* C7 - Completeness: without recovery mode the job list has one job per
\* work-set pair, in order; after a dispatch without failure and ingestion
\* the Run holds n(n-1)/2 Comparisons, one for each unordered pair of its
\* genomes, the reused rows and the new rows being different rows.
C7_Completeness ==
    /\ (~args.recovery /\ pc \in {"dispatch", "running", "ingest", "matrices", "done"}) =>
          /\ Len(joblist) = Len(comparisons_to_run)
          /\ \A i \in DOMAIN joblist :
                <<joblist[i].query, joblist[i].subject>> = comparisons_to_run[i]
    /\ (~args.recovery /\ pc \in {"matrices", "done"} /\ dispatch.failed = 0) =>
          LET n == Len(genomes)
              attached == run.comparisons
              reused == {i \in DOMAIN attached : attached[i].comparison_id <= Len(store0)}
              new == {i \in DOMAIN attached : attached[i].comparison_id > Len(store0)}
          IN /\ 2 * Len(attached) = n * (n - 1)
             /\ \A a, b \in Range(genomes) :
                   a # b => Cardinality({i \in DOMAIN attached :
                                {attached[i].query_id, attached[i].subject_id} = {a, b}}) = 1
             /\ Cardinality(new) = Len(joblist)
             /\ Cardinality(reused) + Cardinality(new) = Len(attached)

C7_Witness ==
    /\ pc = "done"
    /\ ~args.recovery
    /\ dispatch.returned
    /\ dispatch.failed = 0
    /\ Len(genomes) = 3
    /\ Len(store0) = 1
    /\ Len(joblist) = 2
    /\ Len(run.comparisons) = 3

\* The work-set pairs whose final output is in the output directory.
RecoverablePairs ==
    {i \in DOMAIN comparisons_to_run :
        [base |-> comparisons_to_run[i], ext |-> Suffix(args.nofilter)] \in listing}

\* C8 - as claimed: an invocation in recovery mode that has a work-set pair
\* with its final output on disk ends with a Comparison for that pair
\* attached to the Run and written into the Run's matrices.
C8_RecoveryStillIngests ==
    (args.recovery /\ pc \in {"done", "fatal"} /\ error # "SystemExit"
       /\ RecoverablePairs # {}) =>
        /\ pc = "done"
        /\ \A i \in RecoverablePairs :
              /\ \E k \in DOMAIN run.comparisons :
                    /\ run.comparisons[k].query_id = comparisons_to_run[i][1]
                    /\ run.comparisons[k].subject_id = comparisons_to_run[i][2]
              /\ run.df_identity # None
              /\ run.df_identity[1].cells[comparisons_to_run[i]] # NaN

\* C9 - as claimed: an invocation in recovery mode with a non-empty work set
\* gets to job building, and its job list holds the work-set pairs whose
\* expected output file is not in the directory, and no other.
C9_RecoverySkipRule ==
    (args.recovery /\ comparisons_to_run # <<>>
       /\ pc \notin {"idle", "dedup", "recovery", "build"} /\ error # "SystemExit") =>
        /\ error # "TypeError"
        /\ {<<joblist[i].query, joblist[i].subject>> : i \in DOMAIN joblist}
             = {comparisons_to_run[i] : i \in DOMAIN comparisons_to_run \ RecoverablePairs}

\* C10 - as claimed: an alignment length of zero does not make
\* update_comparison_results raise; the invocation is not ended by a
\* division by zero.
C10_ZeroLengthRecorded ==
    ~(pc = "fatal" /\ error = "ZeroDivisionError")

\* Rows attached to the Run that were in the table before the invocation.
ReusedOnly ==
    \A i \in DOMAIN run.comparisons :
        /\ run.comparisons[i].comparison_id <= Len(store0)
        /\ store0[run.comparisons[i].comparison_id] = run.comparisons[i]

\* The five frames of the Run, when they have been assigned.
MatricesSet ==
    /\ run.df_identity # None
    /\ run.df_coverage # None
    /\ run.df_alnlength # None
    /\ run.df_simerrors # None
    /\ run.df_hadamard # None

\* C11 - Nothing to run: once deduplication has left an empty work set, the
\* invocation has returned with the five matrices written from the reused
\* rows, and neither the recovery scan, the job builder, the dispatcher nor
\* the result ingestor has run.
C11_NothingToRun ==
    (Deduplicated /\ comparisons_to_run = <<>>) =>
        /\ pc = "done"
        /\ error = ""
        /\ existingfiles = None
        /\ joblist = <<>>
        /\ ~dispatch.called
        /\ ~IngestionEntered
        /\ pending = <<>>
        /\ store = store0
        /\ ReusedOnly
        /\ MatricesSet
        /\ \A i \in DOMAIN run.comparisons :
              run.df_identity[1].cells[<<run.comparisons[i].query_id,
                                         run.comparisons[i].subject_id>>]
                = run.comparisons[i].identity

C11_Witness ==
    /\ pc = "done"
    /\ comparisons_to_run = <<>>
    /\ Len(run.comparisons) = 3
    /\ MatricesSet

\* C12 - as claimed: the invocation ends with a fatal error, and does not
\* return, when the database cannot be reached, when no work is left after
\* deduplication, and when the dispatcher reports a failed node.
C12_FatalInThreeCases ==
    /\ error = "SystemExit" => pc = "fatal"
    /\ (Deduplicated /\ comparisons_to_run = <<>>) => pc = "fatal"
    /\ (args.scheduler = "multiprocessing" /\ dispatch.returned
          /\ dispatch.failed > 0) => pc = "fatal"

\* C12 - as amended: the invocation ends with a fatal error when the
\* database cannot be reached and when the multiprocessing executor reports
\* a failed node; when no work is left after deduplication it returns
\* normally.
C12_ExitContract ==
    /\ error = "SystemExit" => pc = "fatal"
    /\ (Deduplicated /\ comparisons_to_run = <<>>) => (pc = "done" /\ error = "")
    /\ (args.scheduler = "multiprocessing" /\ dispatch.returned
          /\ dispatch.failed > 0) => (pc = "fatal" /\ error = "PyaniException")
    /\ pc = "done" =>
          /\ error = ""
          /\ args.scheduler = "multiprocessing" => dispatch.failed = 0

C12_Witness ==
    /\ pc = "done"
    /\ comparisons_to_run = <<>>
    /\ run.comparisons # <<>>
    /\ nruns = MaxRuns

\* C13 - Connectivity failure: an invocation ended by SystemExit has
\* enumerated no genome and no pair, built no job, dispatched no node and
\* attached no Comparison, and has left the table as it was.
C13_ConnectivityFailure ==
    error = "SystemExit" =>
        /\ pc = "fatal"
        /\ genomes = <<>>
        /\ comparisons_to_run = <<>>
        /\ joblist = <<>>
        /\ nodestate = <<>>
        /\ ~dispatch.called
        /\ run.comparisons = <<>>
        /\ pending = <<>>
        /\ store = store0

C13_Witness ==
    /\ error = "SystemExit"
    /\ pc = "fatal"
    /\ store # <<>>

\* Cell [i, j] of an assigned frame.
Cell(df, i, j) == df[1].cells[<<i, j>>]

\* C14 - Identity matrix: once the frames are assigned, the identity frame
\* is symmetric, both cells of every Comparison attached to the Run hold
\* that Comparison's identity, and the diagonal is 1.0.
C14_IdentityMatrix ==
    MatricesSet =>
        /\ \A i, j \in Range(genomes) :
              Cell(run.df_identity, i, j) = Cell(run.df_identity, j, i)
        /\ \A k \in DOMAIN run.comparisons :
              LET cmp == run.comparisons[k]
              IN /\ Cell(run.df_identity, cmp.query_id, cmp.subject_id) = cmp.identity
                 /\ Cell(run.df_identity, cmp.subject_id, cmp.query_id) = cmp.identity
        /\ \A g \in Range(genomes) : Cell(run.df_identity, g, g) = <<1, 1>>

C14_Witness ==
    /\ MatricesSet
    /\ Len(run.comparisons) = 3
    /\ \E k \in DOMAIN run.comparisons :
          /\ run.comparisons[k].identity # <<1, 1>>
          /\ Cell(run.df_identity, run.comparisons[k].subject_id,
                  run.comparisons[k].query_id) = run.comparisons[k].identity

\* C15 - Coverage matrix: for every Comparison attached to the Run the cell
\* [query, subject] holds the query coverage and the cell [subject, query]
\* the subject coverage; the diagonal is 1.0.
C15_CoverageMatrix ==
    MatricesSet =>
        /\ \A k \in DOMAIN run.comparisons :
              LET cmp == run.comparisons[k]
              IN /\ Cell(run.df_coverage, cmp.query_id, cmp.subject_id) = cmp.cov_query
                 /\ Cell(run.df_coverage, cmp.subject_id, cmp.query_id) = cmp.cov_subject
        /\ \A g \in Range(genomes) : Cell(run.df_coverage, g, g) = <<1, 1>>

C15_Witness ==
    /\ MatricesSet
    /\ \E k \in DOMAIN run.comparisons :
          LET cmp == run.comparisons[k]
          IN /\ cmp.cov_query # cmp.cov_subject
             /\ Cell(run.df_coverage, cmp.query_id, cmp.subject_id)
                  # Cell(run.df_coverage, cmp.subject_id, cmp.query_id)

\* C16 - Alignment-length matrix: the diagonal cell of a genome holds the
\* genome's length, and both cells of every Comparison attached to the Run
\* hold that Comparison's alignment length.
C16_AlnLengthMatrix ==
    MatricesSet =>
        /\ \A g \in Range(genomes) :
              Cell(run.df_alnlength, g, g) = <<GenomeLength(g), 1>>
        /\ \A k \in DOMAIN run.comparisons :
              LET cmp == run.comparisons[k]
              IN /\ Cell(run.df_alnlength, cmp.query_id, cmp.subject_id)
                      = <<cmp.aln_length, 1>>
                 /\ Cell(run.df_alnlength, cmp.subject_id, cmp.query_id)
                      = <<cmp.aln_length, 1>>

C16_Witness ==
    /\ MatricesSet
    /\ Len(genomes) = 3
    /\ \E k \in DOMAIN run.comparisons :
          LET cmp == run.comparisons[k]
          IN /\ cmp.aln_length > 0
             /\ Cell(run.df_alnlength, cmp.query_id, cmp.query_id)
                  # Cell(run.df_alnlength, cmp.query_id, cmp.subject_id)

\* C17 - Hadamard matrix: for every Comparison attached to the Run each of
\* its two Hadamard cells is the product of the identity cell and the
\* coverage cell at the same position; the diagonal is 1.0.
C17_HadamardMatrix ==
    MatricesSet =>
        /\ \A k \in DOMAIN run.comparisons :
              LET q == run.comparisons[k].query_id
                  s == run.comparisons[k].subject_id
              IN /\ Cell(run.df_hadamard, q, s)
                      = Mul(Cell(run.df_identity, q, s), Cell(run.df_coverage, q, s))
                 /\ Cell(run.df_hadamard, s, q)
                      = Mul(Cell(run.df_identity, s, q), Cell(run.df_coverage, s, q))
        /\ \A g \in Range(genomes) : Cell(run.df_hadamard, g, g) = <<1, 1>>

C17_Witness ==
    /\ MatricesSet
    /\ \E k \in DOMAIN run.comparisons :
          LET q == run.comparisons[k].query_id
              s == run.comparisons[k].subject_id
          IN /\ Cell(run.df_hadamard, q, s) # Cell(run.df_hadamard, s, q)
             /\ Cell(run.df_hadamard, q, s) # Cell(run.df_coverage, q, s)
             /\ Cell(run.df_hadamard, q, s) # NaN

\* Whether run.comparisons holds a row between genomes i and j, in either
\* order.
Compared(i, j) ==
    \E k \in DOMAIN run.comparisons :
        \/ run.comparisons[k].query_id = i /\ run.comparisons[k].subject_id = j
        \/ run.comparisons[k].query_id = j /\ run.comparisons[k].subject_id = i

\* The five assigned frames.
Frames ==
    {run.df_identity, run.df_coverage, run.df_alnlength, run.df_simerrors,
     run.df_hadamard}

\* C18 - Missing entries: in each of the five frames an off-diagonal cell is
\* set exactly when a Comparison between its two genomes is attached to the
\* Run, and both axes of every frame are the ascending list of the run's
\* genome ids.
C18_MissingEntries ==
    MatricesSet =>
        \A df \in Frames :
            /\ df[1].index = df[1].columns
            /\ Range(df[1].index) = Range(genomes)
            /\ Len(df[1].index) = Len(genomes)
            /\ \A k \in 1..(Len(df[1].index) - 1) : df[1].index[k] < df[1].index[k + 1]
            /\ \A i, j \in Range(genomes) :
                  i # j => ((Cell(df, i, j) # NaN) <=> Compared(i, j))

C18_Witness ==
    /\ MatricesSet
    /\ Len(genomes) = 3
    /\ genomes[1] > genomes[2]
    /\ \E i, j \in Range(genomes) :
          /\ i # j
          /\ ~Compared(i, j)
          /\ Cell(run.df_identity, i, j) = NaN
    /\ \E i, j \in Range(genomes) :
          /\ i # j
          /\ Compared(i, j)
          /\ Cell(run.df_identity, i, j) # NaN

\* A node of the graph is running.
NodeRunning == \E name \in DOMAIN nodestate : nodestate[name] = "running"

\* The dispatch call has been made and has not returned.
DispatchInProgress == dispatch.called /\ ~dispatch.returned

\* Every node has succeeded or failed, except filter nodes left waiting
\* behind a failed NUCmer node.
Terminated ==
    \A name \in DOMAIN nodestate :
        \/ nodestate[name] \in {"ok", "failed"}
        \/ /\ nodestate[name] = "pending"
           /\ name[2] = "f"
           /\ nodestate[<<name[1], "n">>] = "failed"

\* C19 - No store write overlaps dispatch: a step that changes the table,
\* the Run or the rows waiting for commit is taken while no dispatch call
\* is in progress and no node is running; reused Comparisons are attached
\* before the dispatch call, rows are added and matrices assigned after a
\* dispatch call only once it has returned, and the call returns only when
\* every node that could run has succeeded or failed.
C19_NoWriteDuringDispatch ==
    [][/\ (store' # store \/ run' # run \/ pending' # pending) =>
             /\ ~DispatchInProgress /\ ~NodeRunning
             /\ ~DispatchInProgress' /\ ~NodeRunning'
       /\ (pc = "dedup" /\ run'.comparisons # run.comparisons) => ~dispatch.called
       /\ (pc \in {"ingest", "matrices"} /\ (store' # store \/ run' # run
                                              \/ pending' # pending)) =>
             dispatch.returned
       /\ (~dispatch.returned /\ dispatch'.returned) =>
             (pc = "running" /\ Terminated)]_vars

C19_Witness ==
    /\ pc = "done"
    /\ dispatch.returned
    /\ dispatch.failed > 0
    /\ \E k \in DOMAIN run.comparisons :
          run.comparisons[k].comparison_id <= Len(store0)
    /\ \E k \in DOMAIN run.comparisons :
          run.comparisons[k].comparison_id > Len(store0)

\* C20 - Comparisons are append-only: every step leaves the rows already in
\* the table in place and unchanged; rows are added only by the result
\* ingestor, after the rows already there; and the rows attached to the Run
\* are rows of the table.
C20_AppendOnly ==
    [][/\ Len(store') >= Len(store)
       /\ \A i \in DOMAIN store : store'[i] = store[i]
       /\ store' # store => (pc = "ingest" /\ pc' = "matrices")
       /\ \A k \in DOMAIN run'.comparisons :
             /\ run'.comparisons[k].comparison_id \in DOMAIN store'
             /\ store'[run'.comparisons[k].comparison_id] = run'.comparisons[k]]_vars

C20_Witness ==
    /\ nruns = MaxRuns
    /\ store0 # <<>>
    /\ Len(store) > Len(store0)
    /\ \A i \in DOMAIN store0 : store[i] = store0[i]
    /\ \E k \in DOMAIN run.comparisons :
          run.comparisons[k].comparison_id <= Len(store0)

\* C21 - as claimed: the list handed to the executor holds, for every
\* ComparisonJob of the job list, a node running its NUCmer command and a
\* node running its filter command.
C21_BothNodesHanded ==
    dispatch.called =>
        \A i \in DOMAIN joblist :
            /\ \E n \in HandedJobs(joblist) : n.command = joblist[i].nucmercmd
            /\ \E n \in HandedJobs(joblist) : n.command = joblist[i].filtercmd

\* C21 - as amended: the list handed to the executor holds one node for
\* every ComparisonJob, its filter node; the alignment node is not in the
\* list and is the single dependency of that filter node.
C21_FilterNodesHanded ==
    dispatch.called =>
        /\ Cardinality(HandedJobs(joblist)) = Len(joblist)
        /\ \A i \in DOMAIN joblist :
              /\ \E n \in HandedJobs(joblist) :
                    /\ n.command = joblist[i].filtercmd
                    /\ Len(n.dependencies) = 1
                    /\ n.dependencies[1].command = joblist[i].nucmercmd
              /\ \A n \in HandedJobs(joblist) : n.command # joblist[i].nucmercmd

C21_Witness ==
    /\ dispatch.called
    /\ Len(joblist) = 3
    /\ Cardinality(HandedJobs(joblist)) = 3

\* C22 - as claimed: the recovery scan, called as subcmd_anim calls it,
\* completes and gives back the names in the output directory that end in
\* the suffix of the final output (".delta" without filtering, ".filter"
\* with it).
C22_ScannerOutput ==
    (args.recovery /\ Deduplicated /\ comparisons_to_run # <<>> /\ pc # "recovery") =>
        /\ error # "TypeError"
        /\ existingfiles =
             <<{fname \in listing :
                  fname.ext = IF args.nofilter THEN ".delta" ELSE ".filter"}>>

\* C23 - Job graph shape: the graph handed over has two nodes for every
\* ComparisonJob, an alignment node without predecessor and a filter node
\* whose single predecessor is that alignment node; node names are
\* distinct and no node waits for a node of another pair.
C23_GraphShape ==
    LET nodes == GraphNodes(HandedJobs(joblist))
    IN /\ Cardinality(nodes) = 2 * Len(joblist)
       /\ Cardinality({n.name : n \in nodes}) = Cardinality(nodes)
       /\ \A i \in DOMAIN joblist :
             LET f == joblist[i].job
             IN /\ f \in nodes
                /\ f.command = joblist[i].filtercmd
                /\ f.name[2] = "f"
                /\ Len(f.dependencies) = 1
                /\ f.dependencies[1] \in nodes
                /\ f.dependencies[1].command = joblist[i].nucmercmd
                /\ f.dependencies[1].name = <<f.name[1], "n">>
                /\ f.dependencies[1].dependencies = <<>>
       /\ \A n \in nodes :
             /\ \E i \in DOMAIN joblist :
                   n = joblist[i].job \/ n = joblist[i].job.dependencies[1]
             /\ \A k \in DOMAIN n.dependencies : n.dependencies[k].name[1] = n.name[1]

C23_Witness ==
    /\ Len(joblist) = 3
    /\ Cardinality(GraphNodes(HandedJobs(joblist))) = 6
    /\ pc = "dispatch"

\* Positions in run.comparisons of the rows created by this invocation.
CreatedRows ==
    {k \in DOMAIN run.comparisons : run.comparisons[k].comparison_id > Len(store0)}

\* C24 - Ingestion record: once ingestion has completed after a dispatch
\* without failure, the Run holds one new Comparison for every job of the
\* job list, in the order of the list, and no other new Comparison; its key
\* is (query id, subject id, "nucmer", nucmer version, None, maxmatch), the
\* key deduplication looks up for the pair.
C24_IngestionRecord ==
    (pc \in {"matrices", "done"} /\ dispatch.returned /\ dispatch.failed = 0) =>
        /\ Cardinality(CreatedRows) = Len(joblist)
        /\ \A i \in DOMAIN joblist :
              LET k == Len(run.comparisons) - Len(joblist) + i
                  c == run.comparisons[k]
              IN /\ k \in CreatedRows
                 /\ <<c.query_id, c.subject_id, c.program, c.version, c.fragsize,
                      c.maxmatch>>
                      = <<joblist[i].query, joblist[i].subject, "nucmer",
                          nucmer_version, <<>>, args.maxmatch>>
                 /\ Key(c) = LookupKey(<<joblist[i].query, joblist[i].subject>>,
                                       nucmer_version, args.maxmatch)
                 /\ store[c.comparison_id] = c

C24_Witness ==
    /\ pc = "matrices"
    /\ dispatch.returned
    /\ dispatch.failed = 0
    /\ args.maxmatch
    /\ Len(joblist) = 2
    /\ Cardinality(CreatedRows) = 2
    /\ Len(run.comparisons) = 3

\* C25 - entrez_retry: func is called at most retries times and only after
\* HTTPError or URLError from every earlier call; the value returned is the
\* one func returned on its only successful call, the last one;
\* NCBIDownloadException is raised exactly when retries calls were made and
\* all failed that way (none at all when retries is 0); any other exception
\* leaves the function on the call that raised it.
C25_EntrezRetry ==
    /\ Len(calls) <= retries
    /\ \A k \in 1..(Len(calls) - 1) : calls[k].exc \in {"HTTPError", "URLError"}
    /\ retry_pc = "returned" =>
          /\ calls # <<>>
          /\ calls[Len(calls)].exc = ""
          /\ output = calls[Len(calls)].value
          /\ raised = ""
    /\ (retry_pc = "raised" /\ raised = "NCBIDownloadException") =>
          /\ Len(calls) = retries
          /\ \A k \in DOMAIN calls : calls[k].exc \in {"HTTPError", "URLError"}
    /\ (retry_pc = "raised" /\ raised # "NCBIDownloadException") =>
          /\ calls # <<>>
          /\ calls[Len(calls)].exc = raised
          /\ raised \notin {"", "HTTPError", "URLError"}
    /\ (retry_pc \in {"returned", "raised"} /\ Len(calls) < retries) =>
          calls # <<>> /\ calls[Len(calls)].exc \notin {"HTTPError", "URLError"}
    /\ (retry_pc = "loop" /\ Len(calls) = retries /\ retries > 0
          /\ calls[Len(calls)].exc \in {"HTTPError", "URLError"}) =>
          (tries = retries /\ ~success)

C25_Witness ==
    /\ retry_pc = "returned"
    /\ retries = MaxRetries
    /\ Len(calls) = retries
    /\ calls[1].exc = "HTTPError"
    /\ calls[2].exc = "URLError"
    /\ output = <<"handle", 2>>

\* A row for query q and subject s with the program, version, fragsize
\* and maxmatch of this invocation was in the table when it started.
StoredBefore(q, s) ==
    \E i \in DOMAIN store0 :
        /\ store0[i].query_id = q
        /\ store0[i].subject_id = s
        /\ store0[i].program = "nucmer"
        /\ store0[i].version = nucmer_version
        /\ store0[i].fragsize = <<>>
        /\ store0[i].maxmatch = args.maxmatch

\* The candidate pairs: genomes in the order of run.genomes.all().
CandidatePairs ==
    {<<genomes[x[1]], genomes[x[2]]>> :
        x \in {y \in (DOMAIN genomes) \X (DOMAIN genomes) : y[1] < y[2]}}

\* C26 - Deduplication is direction-sensitive: a candidate pair (q, s) is
\* reused exactly when a row with query q and subject s is stored for the
\* invocation's configuration; a stored row with query s and subject q does
\* not count, the pair enters the work set, and after ingestion the table
\* holds a row for each direction.
C26_DirectionSensitive ==
    Deduplicated =>
        \A p \in CandidatePairs :
            LET q == p[1]
                s == p[2]
                reused == \E k \in DOMAIN run.comparisons :
                             /\ run.comparisons[k].comparison_id <= Len(store0)
                             /\ run.comparisons[k].query_id = q
                             /\ run.comparisons[k].subject_id = s
                swapped == \E k \in DOMAIN run.comparisons :
                             /\ run.comparisons[k].comparison_id <= Len(store0)
                             /\ run.comparisons[k].query_id = s
                             /\ run.comparisons[k].subject_id = q
            IN /\ reused <=> StoredBefore(q, s)
               /\ ~swapped
               /\ ~StoredBefore(q, s) =>
                     \E i \in DOMAIN comparisons_to_run : comparisons_to_run[i] = p
               /\ (StoredBefore(s, q) /\ ~StoredBefore(q, s)
                     /\ pc \in {"matrices", "done"}) =>
                     \E i, j \in DOMAIN store :
                         /\ i <= Len(store0) /\ Len(store0) < j
                         /\ store[i].query_id = s /\ store[i].subject_id = q
                         /\ store[j].query_id = q /\ store[j].subject_id = s
                         /\ store[i].version = store[j].version
                         /\ store[i].maxmatch = store[j].maxmatch

C26_Witness ==
    /\ pc = "done"
    /\ \E p \in CandidatePairs :
          /\ StoredBefore(p[2], p[1])
          /\ ~StoredBefore(p[1], p[2])
          /\ \E j \in DOMAIN store :
                /\ Len(store0) < j
                /\ store[j].query_id = p[1]
                /\ store[j].subject_id = p[2]

\* C27 - Partial state after a failed dispatch: an invocation ended by the
\* dispatch failure still has on its Run a reused row for every candidate
\* pair stored for its configuration, and only such rows; the table is as
\* it was, the matrices are unset and the status is "started".
C27_PartialStateAfterFailure ==
    (pc = "fatal" /\ error = "PyaniException") =>
        /\ \A p \in CandidatePairs :
              StoredBefore(p[1], p[2]) =>
                 \E k \in DOMAIN run.comparisons :
                    /\ run.comparisons[k].query_id = p[1]
                    /\ run.comparisons[k].subject_id = p[2]
                    /\ run.comparisons[k].version = nucmer_version
                    /\ run.comparisons[k].maxmatch = args.maxmatch
        /\ ReusedOnly
        /\ store = store0
        /\ run.df_identity = None
        /\ run.df_coverage = None
        /\ run.df_alnlength = None
        /\ run.df_simerrors = None
        /\ run.df_hadamard = None
        /\ run.status = "started"

C27_Witness ==
    /\ pc = "fatal"
    /\ error = "PyaniException"
    /\ dispatch.failed > 0
    /\ Len(run.comparisons) = 1
    /\ Len(comparisons_to_run) = 2

\* C28 - Ingestion is all-or-nothing: the table holds either none of the
\* invocation's Comparisons or one for every job of the job list, the
\* latter only once ingestion has completed; an invocation ended by an
\* exception of the parser or of the derivation has committed none, has
\* only reused rows on its Run and has no matrices.
C28_AllOrNothing ==
    /\ Len(store) \in {Len(store0), Len(store0) + Len(joblist)}
    /\ Len(store) > Len(store0) => (pc \in {"matrices", "done"} /\ error = "")
    /\ (pc = "fatal" /\ error \in {"ZeroDivisionError", "ParseError"}) =>
          /\ store = store0
          /\ Len(pending) < Len(joblist)
          /\ \A k \in DOMAIN run.comparisons :
                run.comparisons[k].comparison_id <= Len(store0)
          /\ run.df_identity = None /\ run.df_coverage = None
          /\ run.df_alnlength = None /\ run.df_simerrors = None
          /\ run.df_hadamard = None

C28_Witness ==
    /\ pc = "fatal"
    /\ error = "ZeroDivisionError"
    /\ Len(joblist) = 3
    /\ Len(pending) = 2
    /\ store = store0

====
